---- MODULE Spec2Model ----
(***************************************************************************)
(* Model of backup-server.py (class NetworkBackup): the output sanitizer   *)
(* clean_config_output, one device task (backup_device, get_backup and its *)
(* interactive read loops, save_config, fortinet_api_backup) and the       *)
(* thread-pool batch run_backup.                                           *)
(*                                                                         *)
(* Text is a sequence of one-character strings.  The literal texts of the  *)
(* program (commands, prompts, flags) are abbreviated to short words so    *)
(* that every text up to a small length can be enumerated; the words keep  *)
(* the relations of the originals (which are equal, which is a prefix of   *)
(* which, which contain the regex metacharacter "|").                      *)
(***************************************************************************)
EXTENDS Integers, Sequences, FiniteSets, TLC

VARIABLES
    \* ---- clean_config_output called on its own
    config,      \* the captured text handed to the sanitizer
    commands,    \* the command(s) handed to the sanitizer
    cleaned,     \* its return value
    sanPc,       \* "input" before the call, "cleaned" after it
    \* ---- run_backup
    inventory,   \* self.config['devices']: per device, how its task ends
    futures,     \* the futures list: per submitted task, its state or result
    mainPc,      \* position of the thread running run_backup
    idx,         \* position of the result generator in futures
    success,     \* the running sum of line 325
    summary,     \* <<success, total>> once the summary line is logged
    \* ---- one device task: backup_device
    device,      \* the device descriptor: platform, and which key it lacks
    stream,      \* the text this device emits during the session
    devIdx,      \* how much of stream has reached the channel so far
    chan,        \* text buffered in the channel, not yet received
    pc,          \* position of the task
    client,      \* the SSH client: "none", "open" or "closed"
    buff,        \* wlc_shell_login: buff
    output,      \* get_backup: output
    data,        \* get_backup: the chunk received last
    sent,        \* texts sent on the session, in order
    polls,       \* consecutive polls that found no data (counted cyclically)
    capture,     \* what get_backup returned: [ok, text], ok FALSE for None
    file,        \* the backup file of this run: [written, text, ext]
    ret,         \* "none" while running, then "True", "False" or "Exception"
    env,         \* what the environment did: API key, HTTP status, file system
    nClean       \* how often the task has applied clean_config_output

sanVars == <<config, commands, cleaned, sanPc>>
poolVars == <<inventory, futures, mainPc, idx, success, summary>>

devVars == <<device, stream, devIdx, chan, pc, client, buff, output, data, sent, polls,
             capture, file, ret, env, nClean>>

vars == <<config, commands, cleaned, sanPc,
          inventory, futures, mainPc, idx, success, summary,
          device, stream, devIdx, chan, pc, client, buff, output, data, sent, polls,
          capture, file, ret, env, nClean>>

\* --------------------------------------------------------------------------
\* Bounds
\* --------------------------------------------------------------------------
MaxLen == 4          \* longest captured text handed to the sanitizer
MaxDevices == 3      \* devices of every kind in the inventory
MaxStuck == 8        \* never-returning devices listed before them
MaxWords == 4        \* words in the text a device emits
MaxPolls == 2        \* the idle-poll counter runs 1..MaxPolls, then again from 1

\* --------------------------------------------------------------------------
\* Text helpers (Python str operations used by the program)
\* --------------------------------------------------------------------------
Min(a, b) == IF a <= b THEN a ELSE b

\* all texts over the characters cs of length at most n
TextsUpTo(cs, n) == UNION {[1..k -> cs] : k \in 0..n}

\* w occurs in s starting at index i (1-based)
OccursAt(s, w, i) ==
    /\ i >= 1
    /\ i + Len(w) - 1 <= Len(s)
    /\ SubSeq(s, i, i + Len(w) - 1) = w

\* Python:  w in s
Contains(s, w) == \E i \in 1..(Len(s) + 1) : OccursAt(s, w, i)

\* characters str.lstrip() / str.strip() / regex \s treat as whitespace
IsSpace(c) == c \in {" ", "\n", "\t", "\r"}

\* Python:  s[i:]  with i 0-based, written here with the 1-based first index
From(s, first) == SubSeq(s, first, Len(s))

\* Python:  s.lstrip()
lstrip(s) ==
    LET ns == {i \in 1..Len(s) : ~IsSpace(s[i])}
    IN  IF ns = {} THEN <<>>
        ELSE From(s, CHOOSE i \in ns : \A j \in ns : i <= j)

\* --------------------------------------------------------------------------
\* Commands (NetworkBackup.__init__, backup_commands)
\* --------------------------------------------------------------------------
\* a command profile is a single str or a list of str (isinstance checks)
Str(s)   == [type |-> "str", v |-> s]
List(l)  == [type |-> "list", v |-> l]

cmd_show         == <<"s">>            \* 'show'
cmd_show_run     == <<"s", "r">>       \* 'show running-config'
cmd_juniper      == <<"s", "|", "n">>  \* 'show configuration | display set | no-more'
cmd_pager        == <<"t">>            \* 'terminal pager 0'
cmd_display      == <<"d">>            \* 'display current-configuration'
cmd_screen       == <<"l">>            \* 'screen-length disable'

Platforms == {"juniper_qfx", "juniper_srx", "cisco_ios", "cisco_asa", "cisco_wlc",
              "huawei", "h3c", "h3c_core", "fortinet", "hillstone"}

backup_commands ==
    [p \in Platforms |->
        CASE p \in {"juniper_qfx", "juniper_srx"} -> Str(cmd_juniper)
          [] p = "cisco_ios"  -> Str(cmd_show_run)
          [] p = "cisco_asa"  -> List(<<cmd_pager, cmd_show_run>>)
          [] p = "cisco_wlc"  -> List(<<cmd_show_run>>)
          [] p = "huawei"     -> Str(cmd_display)
          [] p \in {"h3c", "h3c_core"} -> List(<<cmd_screen, cmd_display>>)
          [] p = "fortinet"   -> Str(cmd_show)
          [] p = "hillstone"  -> Str(cmd_show_run)]

\* the strings of a command profile, as a list
CommandList(cmds) == IF cmds.type = "list" THEN cmds.v ELSE <<cmds.v>>

\* --------------------------------------------------------------------------
\* clean_config_output
\* --------------------------------------------------------------------------
\* A regex pattern is a sequence of tokens: a literal character or the
\* alternation metacharacter.
Lit(c) == [lit |-> TRUE, ch |-> c]
Bar    == [lit |-> FALSE, ch |-> "|"]

\* mutant of re_escape: no escaping, "|" in a command stays a metacharacter
re_escape_none(cmd) ==
    [i \in 1..Len(cmd) |-> IF cmd[i] = "|" THEN Bar ELSE Lit(cmd[i])]

\* re.escape(cmd): every character of cmd matches literally
re_escape(cmd) == [i \in 1..Len(cmd) |-> Lit(cmd[i])]

\* '|'.join(re.escape(cmd) for cmd in commands)
RECURSIVE JoinBar(_)
JoinBar(pats) ==
    IF Len(pats) = 0 THEN <<>>
    ELSE IF Len(pats) = 1 THEN pats[1]
    ELSE pats[1] \o <<Bar>> \o JoinBar(Tail(pats))

\* lines 33-36: the pattern built from the command(s)
BuildPattern(cmds) ==
    IF cmds.type = "list"
    THEN JoinBar([k \in 1..Len(cmds.v) |-> re_escape(cmds.v[k])])
    ELSE re_escape(cmds.v)

\* the alternatives of a pattern, in order: the literal texts between the
\* bars (cur is the alternative being read, from token i on)
RECURSIVE SplitBars(_, _, _)
SplitBars(pat, i, cur) ==
    IF i > Len(pat) THEN <<cur>>
    ELSE IF pat[i].lit THEN SplitBars(pat, i + 1, Append(cur, pat[i].ch))
    ELSE <<cur>> \o SplitBars(pat, i + 1, <<>>)

Alternatives(pat) == SplitBars(pat, 1, <<>>)

NoMatch == [found |-> FALSE, start |-> 0, end |-> 0]

\* the first alternative, from the k-th on, that matches s at position i
\* (0: none)
RECURSIVE FirstAlt(_, _, _, _)
FirstAlt(alts, s, i, k) ==
    IF k > Len(alts) THEN 0
    ELSE IF OccursAt(s, alts[k], i) THEN k
    ELSE FirstAlt(alts, s, i, k + 1)

\* the scan of re.search from position i on, towards the right
RECURSIVE SearchFrom(_, _, _)
SearchFrom(alts, s, i) ==
    IF i > Len(s) + 1 THEN NoMatch
    ELSE LET k == FirstAlt(alts, s, i, 1)
         IN  IF k > 0
             THEN [found |-> TRUE, start |-> i, end |-> i + Len(alts[k])]
             ELSE SearchFrom(alts, s, i + 1)

\* a scan from position i on, towards the left
RECURSIVE SearchBack(_, _, _)
SearchBack(alts, s, i) ==
    IF i < 1 THEN NoMatch
    ELSE LET k == FirstAlt(alts, s, i, 1)
         IN  IF k > 0
             THEN [found |-> TRUE, start |-> i, end |-> i + Len(alts[k])]
             ELSE SearchBack(alts, s, i - 1)

\* mutant of re_search: the rightmost match instead of the leftmost
re_search_last(pat, s) == SearchBack(Alternatives(pat), s, Len(s) + 1)

\* re.search(pattern, s): the leftmost position where an alternative matches,
\* and there the first alternative, in pattern order, that matches.
\* start is the 1-based index of the first matched character, end the index
\* of the first character after the match.
re_search(pat, s) == SearchFrom(Alternatives(pat), s, 1)

\* lines 28-40
clean_config_output(cfg, cmds) ==
    LET match == re_search(BuildPattern(cmds), cfg)
    IN  IF match.found THEN lstrip(From(cfg, match.end)) ELSE cfg

\* --------------------------------------------------------------------------
\* run_backup: the batch on a ThreadPoolExecutor
\* --------------------------------------------------------------------------
max_workers == 8

\* How the task of a device ends: backup_device returns True ("ok"), returns
\* False ("fail"), raises ("raise"), or never returns ("stuck": a read loop
\* of get_backup that never sees its end pattern).
Kinds == {"ok", "fail", "raise", "stuck"}

\* states of a future: queued, running, or finished with a result
Finished == {"True", "False", "Exception"}

\* the result a finished task leaves in its future
TaskResult(kind) ==
    CASE kind = "ok"    -> "True"
      [] kind = "fail"  -> "False"
      [] kind = "raise" -> "Exception"

\* Python truth value and integer value of a result (bool is an int)
Truthy(r)   == r = "True"
IntValue(r) == IF r = "True" THEN 1 ELSE 0

\* mutant of SumStep: every finished task counts
SumStep_all(acc, r) == acc + 1

\* one step of  sum(f.result() for f in futures if f.result())
SumStep(acc, r) == IF Truthy(r) THEN acc + IntValue(r) ELSE acc

\* mutant of TotalCount: only the successful futures are counted
TotalCount_truthy(fs) == Cardinality({i \in 1..Len(fs) : Truthy(fs[i])})

\* total = len(futures)
TotalCount(fs) == Len(fs)

Running == {i \in 1..Len(futures) : futures[i] = "running"}
Pending == {i \in 1..Len(futures) : futures[i] = "pending"}
AllFinished == \A i \in 1..Len(futures) : futures[i] \in Finished

NoCapture == [ok |-> FALSE, text |-> <<>>]
NoFile == [written |-> FALSE, text |-> <<>>, ext |-> "none"]
NoEnv == [api_key |-> "none", status |-> "none", fs |-> "none"]

DevIdle ==
    /\ device = [platform |-> "none", missing |-> "none"]
    /\ stream = <<>>
    /\ devIdx = 0
    /\ chan = <<>>
    /\ pc = "off"
    /\ client = "none"
    /\ buff = <<>>
    /\ output = <<>>
    /\ data = <<>>
    /\ sent = <<>>
    /\ polls = 0
    /\ capture = NoCapture
    /\ file = NoFile
    /\ ret = "none"
    /\ env = NoEnv
    /\ nClean = 0

SanIdle ==
    /\ commands = Str(<<>>)
    /\ config = <<>>
    /\ cleaned = <<>>
    /\ sanPc = "off"

PoolIdle ==
    /\ inventory = <<>>
    /\ futures = <<>>
    /\ mainPc = "off"
    /\ idx = 0
    /\ success = 0
    /\ summary = <<>>

\* inventories: up to MaxStuck stuck devices, then up to MaxDevices devices
\* of any kind
Inventories ==
    {[i \in 1..k |-> "stuck"] \o t :
        k \in 0..MaxStuck, t \in UNION {[1..n -> Kinds] : n \in 1..MaxDevices}}

InitPool ==
    /\ SanIdle
    /\ DevIdle
    /\ inventory \in Inventories
    /\ futures = <<>>
    /\ mainPc = "submit"
    /\ idx = 1
    /\ success = 0
    /\ summary = <<>>

\* lines 322-324: one submit per device; after the last, the generator starts
Submit ==
    /\ mainPc = "submit"
    /\ IF Len(futures) < Len(inventory)
       THEN /\ futures' = Append(futures, "pending")
            /\ UNCHANGED mainPc
       ELSE /\ mainPc' = "collect"
            /\ UNCHANGED futures
    /\ UNCHANGED <<inventory, idx, success, summary>>
    /\ UNCHANGED sanVars
    /\ UNCHANGED devVars

\* mutant of WorkerFree: the pool starts a worker for every queued task
WorkerFree_always == TRUE

\* line 320: the pool runs at most max_workers tasks at a time
WorkerFree == Cardinality(Running) < max_workers

\* a worker thread takes the oldest queued work item; there are at most
\* max_workers worker threads, each running one item at a time
StartTask ==
    /\ Pending # {}
    /\ WorkerFree
    /\ LET i == CHOOSE p \in Pending : \A q \in Pending : p <= q
       IN  futures' = [futures EXCEPT ![i] = "running"]
    /\ UNCHANGED <<inventory, mainPc, idx, success, summary>>
    /\ UNCHANGED sanVars
    /\ UNCHANGED devVars

\* backup_device returns or raises in a worker; a stuck task does neither
FinishTask(i) ==
    /\ i \in 1..Len(futures)
    /\ futures[i] = "running"
    /\ inventory[i] # "stuck"
    /\ futures' = [futures EXCEPT ![i] = TaskResult(inventory[i])]
    /\ UNCHANGED <<inventory, mainPc, idx, success, summary>>
    /\ UNCHANGED sanVars
    /\ UNCHANGED devVars

\* line 325: f.result() waits for the future, re-raises its exception, and
\* otherwise feeds the sum
Collect ==
    /\ mainPc = "collect"
    /\ idx <= Len(futures)
    /\ futures[idx] \in Finished
    /\ IF futures[idx] = "Exception"
       THEN /\ mainPc' = "exc_shutdown"
            /\ UNCHANGED <<idx, success>>
       ELSE /\ success' = SumStep(success, futures[idx])
            /\ idx' = idx + 1
            /\ UNCHANGED mainPc
    /\ UNCHANGED <<inventory, futures, summary>>
    /\ UNCHANGED sanVars
    /\ UNCHANGED devVars

\* lines 326-327: total and the summary line
LogSummary ==
    /\ mainPc = "collect"
    /\ idx > Len(futures)
    /\ summary' = <<success, TotalCount(futures)>>
    /\ mainPc' = "shutdown"
    /\ UNCHANGED <<inventory, futures, idx, success>>
    /\ UNCHANGED sanVars
    /\ UNCHANGED devVars

\* leaving the with block: executor.shutdown(wait=True) joins the workers
Shutdown ==
    /\ mainPc = "shutdown"
    /\ AllFinished
    /\ mainPc' = "done"
    /\ UNCHANGED <<inventory, futures, idx, success, summary>>
    /\ UNCHANGED sanVars
    /\ UNCHANGED devVars

\* the same on the exception path; the exception then leaves run_backup
ExcShutdown ==
    /\ mainPc = "exc_shutdown"
    /\ AllFinished
    /\ mainPc' = "raised"
    /\ UNCHANGED <<inventory, futures, idx, success, summary>>
    /\ UNCHANGED sanVars
    /\ UNCHANGED devVars

NextPool ==
    \/ Submit
    \/ StartTask
    \/ \E i \in 1..Len(futures) : FinishTask(i)
    \/ Collect
    \/ LogSummary
    \/ Shutdown
    \/ ExcShutdown

SpecPool == InitPool /\ [][NextPool]_vars

\* The threads are scheduled by the operating system: the main thread and
\* every worker that can take a step eventually takes it.
FairSpecPool ==
    /\ SpecPool
    /\ WF_vars(Submit)
    /\ WF_vars(StartTask)
    /\ \A i \in 1..(MaxStuck + MaxDevices) : WF_vars(FinishTask(i))
    /\ WF_vars(Collect)
    /\ WF_vars(LogSummary)
    /\ WF_vars(Shutdown)
    /\ WF_vars(ExcShutdown)

\* --------------------------------------------------------------------------
\* One device task: backup_device, get_backup, save_config
\* --------------------------------------------------------------------------
NL == <<"\n">>

user_prompt        == <<"U", ":">>   \* "User:"
password_prompt    == <<"P", ":">>   \* "Password:"
more_flag          == <<"M", "m">>   \* 'Press Enter to continue'
enter_flag         == <<"M", "m">>   \* 'Press Enter to continue' (line 218)
end_flag           == <<"E", "e">>   \* '(Cisco Controller) >?'
username           == <<"u">>        \* credentials.username
password           == <<"p">>        \* credentials.password
cmd_paging         == <<"g">>        \* 'config paging disable'
cmd_show_runconfig == <<"s", "c">>   \* 'show run-config'

RecvLogin == 1024
RecvShell == 65535

\* shell.recv(n): up to n characters of what the channel holds
Recv(ch, n) == SubSeq(ch, 1, Min(n, Len(ch)))
AfterRecv(ch, n) == From(ch, Min(n, Len(ch)) + 1)

\* re.search(r'<.*?>\s*$', d): a "<", then characters other than newline,
\* then a ">", then only whitespace up to the end of d
H3cPromptAtEnd(d) ==
    \E i \in 1..Len(d) : \E j \in (i + 1)..Len(d) :
        /\ d[i] = "<"
        /\ d[j] = ">"
        /\ \A k \in (i + 1)..(j - 1) : d[k] # "\n"
        /\ \A k \in (j + 1)..Len(d) : IsSpace(d[k])

\* mutant of WlcComplete: the end flag alone ends the read loop
WlcComplete_endonly(d) == Contains(d, end_flag)

\* line 227: the exit condition of the cisco_wlc read loop
WlcComplete(d) == Contains(d, end_flag) /\ ~Contains(d, more_flag)

\* mutant of WlcKeys: a space is sent for every chunk
WlcKeys_always(d) == << <<" ">> >>

\* lines 223-226: what the cisco_wlc read loop sends for a chunk
WlcKeys(d) ==
    (IF Contains(d, enter_flag) THEN <<NL>> ELSE <<>>)
    \o (IF Contains(d, more_flag) THEN << <<" ">> >> ELSE <<>>)

RECURSIVE Flatten(_)
Flatten(ws) == IF Len(ws) = 0 THEN <<>> ELSE ws[1] \o Flatten(Tail(ws))

\* str.strip()
strip(s) ==
    LET ns == {i \in 1..Len(s) : ~IsSpace(s[i])}
    IN  IF ns = {} THEN <<>>
        ELSE SubSeq(s, CHOOSE i \in ns : \A j \in ns : i <= j,
                       CHOOSE i \in ns : \A j \in ns : i >= j)

\* lines 128-151: outs[k] is what command k prints, failAt the command whose
\* exec_command or read raises (0: none)
execute_commands(cmds, outs, failAt) ==
    IF failAt \in 1..Len(cmds) THEN <<>> ELSE strip(Flatten(outs))

\* mutant of SendCommands: the commands are sent last to first
SendCommands_reversed(cmds) == [k \in 1..Len(cmds) |-> cmds[Len(cmds) + 1 - k] \o NL]

\* lines 238-239 and 138-139: every command of the list, in order, each
\* followed by a newline
SendCommands(cmds) == [k \in 1..Len(cmds) |-> cmds[k] \o NL]

\* the words a device of a platform may emit
DevWords(platform) ==
    CASE platform = "cisco_wlc" ->
            {user_prompt, password_prompt, more_flag, end_flag, <<"x">>}
      [] platform \in {"h3c", "h3c_core"} ->
            {<<"<">>, <<">">>, <<"x">>, NL}
      [] platform = "cisco_asa" -> {cmd_pager, cmd_show_run, <<"x">>, NL}
      [] platform \in Platforms \ {"cisco_wlc", "h3c", "h3c_core", "cisco_asa", "fortinet"} ->
            {backup_commands[platform].v, <<"x">>, NL}
      [] OTHER -> {<<"x">>, NL}

DevStreams(platform) ==
    {Flatten(ws) : ws \in UNION {[1..k -> DevWords(platform)] : k \in 0..MaxWords}}

MissingKeys == {"none", "platform", "hostip", "name", "groups"}

\* device descriptors: a complete one of every platform and of a platform
\* the registry lacks, and ones lacking a key on the SSH path and the API path
Devices ==
    [platform : Platforms \cup {"unknown"}, missing : {"none"}]
    \cup [platform : {"cisco_ios", "fortinet"}, missing : MissingKeys]

\* outcomes of the file system calls of save_config / fortinet_api_backup
FsOutcomes == {"ok", "mkdir_fail", "open_fail", "write_fail"}

\* what requests.get does: a response with a status, or an exception
HttpOutcomes == {"200", "403", "error"}

\* mutant of StatusOk: every response counts, whatever its status
StatusOk_any(status) == status # "error"

\* line 58: resp.status_code == 200
StatusOk(status) == status = "200"

\* lines 59-66 and 70-72: what fortinet_api_backup leaves behind once the
\* response is a 200; every failure is caught and gives False
api_save(body, fs) ==
    CASE fs \in {"mkdir_fail", "open_fail"} -> [file |-> NoFile, ret |-> "False"]
      [] fs = "write_fail" ->
            [file |-> [written |-> TRUE, text |-> <<>>, ext |-> "conf"], ret |-> "False"]
      [] OTHER ->
            [file |-> [written |-> TRUE, text |-> body, ext |-> "conf"], ret |-> "True"]

SessionPcs == {"wlc_user", "wlc_pass", "wlc_read", "h3c_read", "asa_read"}
LoopPcs == {"wlc_user", "wlc_pass", "wlc_read", "h3c_read"}

InitDev ==
    /\ SanIdle
    /\ PoolIdle
    /\ device \in Devices
    /\ stream \in DevStreams(device.platform)
    /\ devIdx = 0
    /\ chan = <<>>
    /\ pc = "start"
    /\ client = "none"
    /\ buff = <<>>
    /\ output = <<>>
    /\ data = <<>>
    /\ sent = <<>>
    /\ polls = 0
    /\ capture = NoCapture
    /\ file = NoFile
    /\ ret = "none"
    /\ env = NoEnv
    /\ nClean = 0

\* the task ends with a result, or with an exception leaving backup_device
Return(r) == ret' = r /\ pc' = "done"

\* lines 296-302: platform test, connect_device
BeginTask ==
    /\ pc = "start"
    /\ IF device.missing = "platform"
       THEN Return("Exception") /\ UNCHANGED client
       ELSE IF device.platform = "fortinet"
       THEN pc' = "api" /\ UNCHANGED <<ret, client>>
       ELSE IF device.missing = "hostip"
       THEN Return("Exception") /\ UNCHANGED client
       ELSE \E connected \in BOOLEAN :
              IF connected
              THEN client' = "open" /\ pc' = "get_backup" /\ UNCHANGED ret
              ELSE Return("False") /\ UNCHANGED client
    /\ UNCHANGED <<device, stream, devIdx, chan, buff, output, data, sent, polls,
                   capture, file>>
    /\ UNCHANGED <<sanVars, poolVars, env, nClean>>

\* lines 42-72: fortinet_api_backup
ApiBackup ==
    /\ pc = "api"
    /\ IF device.missing = "hostip"
       THEN Return("Exception") /\ UNCHANGED <<file, devIdx, env>>
       ELSE \E api_key \in BOOLEAN, status \in HttpOutcomes, fs \in FsOutcomes :
              IF ~api_key
              THEN \* lines 49-51: no request is made
                   /\ Return("False")
                   /\ env' = [env EXCEPT !.api_key = "no"]
                   /\ UNCHANGED <<file, devIdx>>
              ELSE IF ~StatusOk(status)
              THEN \* lines 67-72
                   /\ Return("False")
                   /\ env' = [env EXCEPT !.api_key = "yes", !.status = status]
                   /\ UNCHANGED <<file, devIdx>>
              ELSE IF device.missing \in {"name", "groups"}
              THEN \* KeyError at line 60 or 61, caught at line 70
                   /\ Return("False")
                   /\ env' = [env EXCEPT !.api_key = "yes", !.status = status]
                   /\ UNCHANGED <<file, devIdx>>
              ELSE LET saved == api_save(stream, fs)
                   IN  /\ Return(saved.ret)
                       /\ file' = saved.file
                       /\ env' = [api_key |-> "yes", status |-> status, fs |-> fs]
                       /\ devIdx' = IF saved.file.written THEN Len(stream) ELSE devIdx
    /\ UNCHANGED <<device, stream, chan, client, buff, output, data, sent, polls,
                   capture, nClean>>
    /\ UNCHANGED <<sanVars, poolVars>>

\* lines 182-192, 207-208, 234-241, 247-260: get_backup up to its first read
GetBackup ==
    /\ pc = "get_backup"
    /\ IF device.platform \notin Platforms
       THEN \* KeyError, line 255
            /\ capture' = NoCapture
            /\ pc' = "close"
            /\ UNCHANGED <<sent, devIdx>>
       ELSE \E raised \in BOOLEAN :
            IF raised
            THEN \* invoke_shell or exec_command raises, line 258
                 /\ capture' = NoCapture
                 /\ pc' = "close"
                 /\ UNCHANGED <<sent, devIdx>>
            ELSE CASE device.platform \in {"h3c", "h3c_core"} ->
                        /\ sent' = sent \o <<cmd_screen \o NL, cmd_display \o NL>>
                        /\ pc' = "h3c_read"
                        /\ UNCHANGED <<capture, devIdx>>
                   [] device.platform = "cisco_wlc" ->
                        /\ pc' = "wlc_user"
                        /\ UNCHANGED <<capture, sent, devIdx>>
                   [] device.platform = "cisco_asa" ->
                        /\ sent' = sent \o SendCommands(backup_commands["cisco_asa"].v)
                        /\ pc' = "asa_read"
                        /\ UNCHANGED <<capture, devIdx>>
                   [] OTHER ->
                        LET command == backup_commands[device.platform]
                        IN  /\ IF command.type = "list"
                               THEN /\ sent' = sent \o SendCommands(command.v)
                                    /\ capture' =
                                        [ok |-> TRUE,
                                         text |-> execute_commands(command.v,
                                            [k \in 1..Len(command.v) |->
                                                IF k = Len(command.v) THEN stream ELSE <<>>],
                                            0)]
                               ELSE /\ sent' = Append(sent, command.v)
                                    /\ capture' = [ok |-> TRUE, text |-> stream]
                            /\ devIdx' = Len(stream)
                            /\ pc' = "close"
    /\ UNCHANGED <<device, stream, chan, client, buff, output, data, polls, file, ret>>
    /\ UNCHANGED <<sanVars, poolVars, env, nClean>>

\* lines 167, 175, 202, 230: no data is ready, sleep and poll again
IdlePoll == polls' = IF polls < MaxPolls THEN polls + 1 ELSE 1

\* lines 160-167: wait for the username prompt
WlcUserPoll ==
    /\ pc = "wlc_user"
    /\ IF chan # <<>>
       THEN LET b == buff \o Recv(chan, RecvLogin)
            IN  /\ chan' = AfterRecv(chan, RecvLogin)
                /\ polls' = 0
                /\ IF Contains(b, user_prompt)
                   THEN /\ sent' = Append(sent, username \o NL)
                        /\ buff' = <<>>
                        /\ pc' = "wlc_pass"
                   ELSE /\ buff' = b
                        /\ UNCHANGED <<sent, pc>>
       ELSE IdlePoll /\ UNCHANGED <<chan, buff, sent, pc>>
    /\ UNCHANGED <<device, stream, devIdx, client, output, data, capture, file, ret>>
    /\ UNCHANGED <<sanVars, poolVars, env, nClean>>

\* lines 169-176 and 211-215: wait for the password prompt, then send the
\* two commands of the cisco_wlc branch
WlcPassPoll ==
    /\ pc = "wlc_pass"
    /\ IF chan # <<>>
       THEN LET b == buff \o Recv(chan, RecvLogin)
            IN  /\ chan' = AfterRecv(chan, RecvLogin)
                /\ polls' = 0
                /\ buff' = b
                /\ IF Contains(b, password_prompt)
                   THEN /\ sent' = sent \o <<password \o NL, cmd_paging \o NL,
                                            cmd_show_runconfig \o NL>>
                        /\ pc' = "wlc_read"
                   ELSE UNCHANGED <<sent, pc>>
       ELSE IdlePoll /\ UNCHANGED <<chan, buff, sent, pc>>
    /\ UNCHANGED <<device, stream, devIdx, client, output, data, capture, file, ret>>
    /\ UNCHANGED <<sanVars, poolVars, env, nClean>>

\* lines 219-232: the cisco_wlc read loop
WlcReadPoll ==
    /\ pc = "wlc_read"
    /\ IF chan # <<>>
       THEN LET d == Recv(chan, RecvShell)
            IN  /\ chan' = AfterRecv(chan, RecvShell)
                /\ polls' = 0
                /\ data' = d
                /\ output' = output \o d
                /\ sent' = sent \o WlcKeys(d)
                /\ IF WlcComplete(d)
                   THEN /\ capture' = [ok |-> TRUE, text |-> output \o d]
                        /\ pc' = "close"
                   ELSE UNCHANGED <<capture, pc>>
       ELSE IdlePoll /\ UNCHANGED <<chan, data, output, sent, capture, pc>>
    /\ UNCHANGED <<device, stream, devIdx, client, buff, file, ret>>
    /\ UNCHANGED <<sanVars, poolVars, env, nClean>>

\* lines 194-204: the h3c / h3c_core read loop
H3cReadPoll ==
    /\ pc = "h3c_read"
    /\ IF chan # <<>>
       THEN LET d == Recv(chan, RecvShell)
            IN  /\ chan' = AfterRecv(chan, RecvShell)
                /\ polls' = 0
                /\ data' = d
                /\ output' = output \o d
                /\ IF H3cPromptAtEnd(d)
                   THEN /\ capture' = [ok |-> TRUE, text |-> output \o d]
                        /\ pc' = "close"
                   ELSE UNCHANGED <<capture, pc>>
       ELSE IdlePoll /\ UNCHANGED <<chan, data, output, capture, pc>>
    /\ UNCHANGED <<device, stream, devIdx, client, buff, sent, file, ret>>
    /\ UNCHANGED <<sanVars, poolVars, env, nClean>>

\* lines 242-245: the cisco_asa read, which stops at the first moment the
\* channel holds no data
AsaRead ==
    /\ pc = "asa_read"
    /\ IF chan # <<>>
       THEN LET d == Recv(chan, RecvShell)
            IN  /\ chan' = AfterRecv(chan, RecvShell)
                /\ data' = d
                /\ output' = output \o d
                /\ UNCHANGED <<capture, pc>>
       ELSE /\ capture' = [ok |-> TRUE, text |-> output]
            /\ pc' = "close"
            /\ UNCHANGED <<chan, data, output>>
    /\ UNCHANGED <<device, stream, devIdx, client, buff, sent, polls, file, ret>>
    /\ UNCHANGED <<sanVars, poolVars, env, nClean>>

\* a send or recv on the shell raises (the transport broke): line 258
SessionError ==
    /\ pc \in SessionPcs
    /\ capture' = NoCapture
    /\ pc' = "close"
    /\ UNCHANGED <<device, stream, devIdx, chan, client, buff, output, data, sent,
                   polls, file, ret>>
    /\ UNCHANGED <<sanVars, poolVars, env, nClean>>

\* the device emits the next n characters of its text
Deliver(n) ==
    /\ pc \in SessionPcs
    /\ n \in 1..(Len(stream) - devIdx)
    /\ chan' = chan \o SubSeq(stream, devIdx + 1, devIdx + n)
    /\ devIdx' = devIdx + n
    /\ UNCHANGED <<device, stream, pc, client, buff, output, data, sent, polls,
                   capture, file, ret>>
    /\ UNCHANGED <<sanVars, poolVars, env, nClean>>

\* lines 262-287: what save_config leaves behind for a non-empty capture:
\* the file and the result, "Exception" when os.makedirs raises (line 279 is
\* outside the try)
save_config(text, cmds, fs) ==
    LET cfg == IF CommandList(cmds) # <<>> THEN clean_config_output(text, cmds) ELSE text
    IN  CASE fs = "mkdir_fail" -> [file |-> NoFile, ret |-> "Exception"]
          [] fs = "open_fail"  -> [file |-> NoFile, ret |-> "False"]
          [] fs = "write_fail" ->
                [file |-> [written |-> TRUE, text |-> <<>>, ext |-> "cfg"], ret |-> "False"]
          [] OTHER ->
                [file |-> [written |-> TRUE, text |-> cfg, ext |-> "cfg"], ret |-> "True"]

\* mutant of NotConfig: only the empty text counts as no configuration
NotConfig_empty(c) == c.ok /\ c.text = <<>>

\* line 305: "if not config", true of None and of the empty text
NotConfig(c) == ~c.ok \/ c.text = <<>>

\* mutant of ClientAfterGetBackup: the client is closed only when a
\* configuration came back
ClientAfterGetBackup_onconfig(c) == IF c.ok THEN "closed" ELSE "open"

\* line 304: client.close() right after get_backup returned, whatever it
\* returned
ClientAfterGetBackup(c) == "closed"

\* lines 304-313: close the client, then save what get_backup returned
CloseAndSave ==
    /\ pc = "close"
    /\ client' = ClientAfterGetBackup(capture)
    /\ IF NotConfig(capture)
       THEN Return("False") /\ UNCHANGED <<file, env, nClean>>
       ELSE IF device.missing \in {"name", "groups"} \/ device.platform \notin Platforms
       THEN \* KeyError while the arguments of line 307 are evaluated
            Return("Exception") /\ UNCHANGED <<file, env, nClean>>
       ELSE \E fs \in FsOutcomes :
              LET saved == save_config(capture.text, backup_commands[device.platform], fs)
              IN  /\ Return(saved.ret)
                  /\ file' = saved.file
                  /\ env' = [env EXCEPT !.fs = fs]
                  /\ nClean' = nClean + 1
    /\ UNCHANGED <<device, stream, devIdx, chan, buff, output, data, sent, polls,
                   capture>>
    /\ UNCHANGED <<sanVars, poolVars>>

NextDev ==
    \/ BeginTask
    \/ ApiBackup
    \/ GetBackup
    \/ WlcUserPoll
    \/ WlcPassPoll
    \/ WlcReadPoll
    \/ H3cReadPoll
    \/ AsaRead
    \/ SessionError
    \/ \E n \in 1..(2 * MaxWords) : Deliver(n)
    \/ CloseAndSave

SpecDev == InitDev /\ [][NextDev]_vars

\* The worker thread running the task is scheduled: every step of the task
\* that can be taken is eventually taken.  Nothing obliges the device to
\* emit text, nor the transport to break.
FairSpecDev ==
    /\ SpecDev
    /\ WF_vars(BeginTask)
    /\ WF_vars(ApiBackup)
    /\ WF_vars(GetBackup)
    /\ WF_vars(WlcUserPoll)
    /\ WF_vars(WlcPassPoll)
    /\ WF_vars(WlcReadPoll)
    /\ WF_vars(H3cReadPoll)
    /\ WF_vars(AsaRead)
    /\ WF_vars(CloseAndSave)

\* --------------------------------------------------------------------------
\* Specification SpecSan: clean_config_output on every small input
\* --------------------------------------------------------------------------
\* the command profiles save_config can pass on (line 312: a value of
\* backup_commands; line 270 passes only a non-empty one,
\* of an SSH platform: line 296 sends fortinet to the API path)
SanCommands == {backup_commands[p] : p \in Platforms \ {"fortinet"}}

CharsOf(cmds) ==
    UNION {{CommandList(cmds)[k][i] : i \in 1..Len(CommandList(cmds)[k])} :
              k \in 1..Len(CommandList(cmds))}

\* captured texts: the characters of the commands, a newline and another
\* character
SanTexts(cmds) == TextsUpTo(CharsOf(cmds) \cup {"\n", "x"}, MaxLen)

InitSan ==
    /\ PoolIdle
    /\ DevIdle
    /\ commands \in SanCommands
    /\ config \in SanTexts(commands)
    /\ cleaned = <<>>
    /\ sanPc = "input"

Clean ==
    /\ sanPc = "input"
    /\ cleaned' = clean_config_output(config, commands)
    /\ sanPc' = "cleaned"
    /\ UNCHANGED <<config, commands>>
    /\ UNCHANGED poolVars
    /\ UNCHANGED devVars

NextSan == Clean

SpecSan == InitSan /\ [][NextSan]_vars

\* --------------------------------------------------------------------------
\* Properties of clean_config_output (checked under SpecSan)
\* --------------------------------------------------------------------------
CmdSet == {CommandList(commands)[k] : k \in 1..Len(CommandList(commands))}

\* positions of config where one of the commands occurs
Occurrences == {i \in 1..(Len(config) + 1) : \E c \in CmdSet : OccursAt(config, c, i)}

HasContent(t) == \E i \in 1..Len(t) : ~IsSpace(t[i])

IsSuffixOf(t, s) == Len(t) <= Len(s) /\ From(s, Len(s) - Len(t) + 1) = t

\* C8: when the captured text contains a command followed by configuration
\* content, the sanitizer's result contains none of the commands, is taken
\* from the text after that command only, and is not empty.
C8_ResultExcludesCommands ==
    (sanPc = "cleaned" /\ \E c \in CmdSet : \E i \in 1..Len(config) :
        /\ OccursAt(config, c, i)
        /\ HasContent(From(config, i + Len(c))))
    => /\ \A c \in CmdSet : ~Contains(cleaned, c)
       /\ \E c \in CmdSet : \E i \in 1..Len(config) :
            OccursAt(config, c, i) /\ IsSuffixOf(cleaned, From(config, i + Len(c)))
       /\ cleaned # <<>>

\* C9: the result is the text after the leftmost occurrence of a command,
\* without its leading whitespace and otherwise untouched: it is a suffix of
\* that text, starts with no whitespace, and only whitespace was dropped.
C9_LeftmostMatchRemainder ==
    (sanPc = "cleaned" /\ Occurrences # {}) =>
        LET i == CHOOSE h \in Occurrences : \A g \in Occurrences : h <= g
        IN  \E c \in CmdSet :
              /\ OccursAt(config, c, i)
              /\ LET rest == From(config, i + Len(c))
                     dropped == Len(rest) - Len(cleaned)
                 IN  /\ IsSuffixOf(cleaned, rest)
                     /\ (cleaned # <<>> => ~IsSpace(cleaned[1]))
                     /\ \A j \in 1..dropped : IsSpace(rest[j])

\* a command occurs twice, whitespace follows the first occurrence and
\* content follows that
C9_Witness ==
    /\ sanPc = "cleaned"
    /\ Cardinality(Occurrences) >= 2
    /\ Len(cleaned) >= 1
    /\ \E i \in Occurrences : \E c \in CmdSet :
          /\ OccursAt(config, c, i)
          /\ i + Len(c) <= Len(config)
          /\ IsSpace(config[i + Len(c)])
          /\ Len(cleaned) < Len(config) - (i + Len(c)) + 1

\* C10: when none of the commands occurs in the captured text, the result is
\* the captured text, character for character.
C10_NoMatchUnchanged ==
    (sanPc = "cleaned" /\ Occurrences = {}) => cleaned = config

\* no command occurs, and the text starts with whitespace and holds a
\* character of a command
C10_Witness ==
    /\ sanPc = "cleaned"
    /\ Occurrences = {}
    /\ Len(config) >= 2
    /\ IsSpace(config[1])
    /\ \E j \in 1..Len(config) : config[j] \in CharsOf(commands)
    /\ cleaned = config

\* --------------------------------------------------------------------------
\* Properties of run_backup (checked under SpecPool and FairSpecPool)
\* --------------------------------------------------------------------------
TrueResults == {i \in 1..Len(futures) : futures[i] = "True"}
FailingDevices == {i \in 1..Len(inventory) : inventory[i] = "fail"}

\* exactly one device's task returns False and every other returns True
OneFailure ==
    /\ Cardinality(FailingDevices) = 1
    /\ \A i \in 1..Len(inventory) : inventory[i] \in {"ok", "fail"}

\* C3: with exactly one failing device among succeeding ones, every other
\* task still finishes with True, the batch is not aborted, and the summary
\* is N-1 out of N, in every interleaving.
C3_OneFailureLeavesOthers ==
    OneFailure =>
        /\ \A j \in 1..Len(futures) :
              (inventory[j] = "ok" /\ futures[j] \in Finished) => futures[j] = "True"
        /\ mainPc \notin {"exc_shutdown", "raised"}
        /\ (mainPc = "done" => summary = <<Len(inventory) - 1, Len(inventory)>>)

\* a finished run of at least three devices, one of them failing, not last
C3_Witness ==
    /\ OneFailure
    /\ Len(inventory) >= 3
    /\ inventory[Len(inventory)] = "ok"
    /\ mainPc = "done"
    /\ summary = <<Len(inventory) - 1, Len(inventory)>>

\* C4 (as claimed): every task whose device responds is eventually started
\* and runs to its result, whatever the number of stuck devices.
C4_ResponsiveTasksFinish ==
    \A i \in 1..(MaxStuck + MaxDevices) :
        [](  (i <= Len(inventory) /\ inventory[i] # "stuck")
          => <>(i <= Len(futures) /\ futures[i] \in Finished))

\* C6: the success count is the number of futures whose result is True and
\* never exceeds the number of tasks, while summing and in the summary.
C6_SuccessCount ==
    /\ success <= Len(futures)
    /\ (mainPc = "collect" =>
          success = Cardinality({i \in TrueResults : i < idx}))
    /\ (summary # <<>> =>
          /\ summary[1] = Cardinality(TrueResults)
          /\ summary[1] <= summary[2]
          /\ summary[2] = Len(inventory))

\* a summary over tasks of which some succeeded and some failed
C6_Witness ==
    /\ mainPc = "done"
    /\ summary # <<>>
    /\ summary[1] >= 1
    /\ summary[1] < summary[2]
    /\ \E i \in 1..Len(futures) : futures[i] = "False"

\* --------------------------------------------------------------------------
\* Properties of one device task (checked under SpecDev and FairSpecDev)
\* --------------------------------------------------------------------------
\* C1: the cisco_wlc read loop never completes on a chunk that contains the
\* pagination trigger: the chunk it completed on holds the end flag and not
\* the trigger, and a chunk holding both leaves the loop reading.
C1_PaginationBeforeCompletion ==
    [][ /\ (pc = "wlc_read" /\ pc' = "close" /\ capture'.ok)
            => (~Contains(data', more_flag) /\ Contains(data', end_flag))
        /\ (pc = "wlc_read" /\ chan # <<>> /\ Contains(Recv(chan, RecvShell), more_flag)
            /\ pc' # "close")
            => pc' = "wlc_read" ]_vars

\* the loop has just received a chunk holding both the trigger and the end
\* flag and goes on reading
C1_Witness ==
    /\ pc = "wlc_read"
    /\ Contains(data, more_flag)
    /\ Contains(data, end_flag)
    /\ ~capture.ok

\* C2 (as claimed): no interactive loop polls forever; each is left after a
\* bounded wait, whatever the device sends or fails to send.
C2_LoopsAreLeft == [](pc \in LoopPcs => <>(pc \notin LoopPcs))

\* C5 (as claimed): no error leaves backup_device as an exception; every
\* task ends with a result.
C5_NoExceptionLeavesTask == ret # "Exception"

\* the device has emitted its whole text and all of it was received
CaptureComplete == devIdx = Len(stream) /\ chan = <<>>

\* C7 (as claimed): a file written by save_config holds a capture that ran
\* to completion.
C7_OnlyCompleteCapturesSaved ==
    (file.written /\ file.ext = "cfg") => CaptureComplete

\* the platforms whose branch of get_backup neither logs in nor answers a
\* pagination prompt: all but cisco_wlc, and fortinet which has no session
PlainPlatforms == Platforms \ {"cisco_wlc", "fortinet"}

\* what the profile of a platform makes get_backup send: a list command by
\* command with a newline each, a single command as it is
ProfileSends(platform) ==
    IF backup_commands[platform].type = "list"
    THEN SendCommands(backup_commands[platform].v)
    ELSE <<backup_commands[platform].v>>

\* the text the task has taken from the device so far
Received == SubSeq(stream, 1, devIdx - Len(chan))

\* the keystrokes that answer a pagination prompt
ContinuationKeys == {NL, <<" ">>}

\* C11: on a platform without pagination or login handling get_backup sends
\* the commands of the profile in order and nothing else, never a
\* continuation keystroke, and what it returns is exactly the text received
\* for them, in order.
C11_PlainCapture ==
    device.platform \in PlainPlatforms =>
        /\ sent \in {<<>>, ProfileSends(device.platform)}
        /\ \A k \in 1..Len(sent) : sent[k] \notin ContinuationKeys
        /\ (capture.ok => /\ sent = ProfileSends(device.platform)
                          /\ capture.text = Received)

\* a cisco_asa task that sent both commands of its profile and returned
\* the text of more than one received chunk
C11_Witness ==
    /\ device.platform = "cisco_asa"
    /\ pc = "done"
    /\ capture.ok
    /\ Len(sent) = 2
    /\ Len(capture.text) > Len(data)
    /\ data # <<>>
    /\ ret = "True"

\* the task went down the API path and has returned
ApiTaskDone == device.platform = "fortinet" /\ pc = "done" /\ env.api_key # "none"

\* the failures the API path reports: no API key, a status other than 200,
\* an error of the transport
ApiFailure == env.api_key = "no" \/ env.status \in {"403", "error"}

\* C12 (as claimed): on the API path a file is written if and only if the
\* response status is a success status, and then it holds exactly the
\* response body; with no API key, another status or a transport error the
\* task fails and there is no file.
C12_ApiFileIffSuccess ==
    ApiTaskDone =>
        /\ file.written <=> env.status = "200"
        /\ file.written => file.text = stream
        /\ ApiFailure => (ret = "False" /\ ~file.written)

\* C12 (amended): on the API path a file is written only after a response
\* with status 200; a task that reports success has written exactly the
\* response body, and a 200 response ends in success whenever the descriptor
\* has its keys and the file system calls succeed; with no API key, another
\* status or a transport error the task returns False and there is no file.
C12_ApiFileOnlyOnSuccess ==
    ApiTaskDone =>
        /\ file.written => (env.status = "200" /\ env.api_key = "yes")
        /\ ret = "True" <=> (env.status = "200" /\ env.fs = "ok")
        /\ ret = "True" => (file.written /\ file.text = stream /\ file.ext = "conf")
        /\ ApiFailure => (ret = "False" /\ ~file.written)

\* a 200 response with a non-empty body was written to the file
C12_Witness ==
    /\ ApiTaskDone
    /\ env.status = "200"
    /\ ret = "True"
    /\ file.written
    /\ file.text = stream
    /\ Len(stream) >= 2

\* C13: for a platform that backup_commands lacks, get_backup sends nothing
\* on the session and returns no configuration, and backup_device writes no
\* file, raises nothing and returns False.
C13_UnknownPlatformFails ==
    device.platform \notin Platforms =>
        /\ sent = <<>>
        /\ ~capture.ok
        /\ ~file.written
        /\ ret \in {"none", "False"}
        /\ (pc = "done" => ret = "False")

\* the task of a device of an unknown platform connected, looked the
\* platform up, closed the session and returned False
C13_Witness ==
    /\ device.platform \notin Platforms
    /\ pc = "done"
    /\ client = "closed"
    /\ ret = "False"

\* --------------------------------------------------------------------------
\* Further properties of the pool (checked under SpecPool)
\* --------------------------------------------------------------------------
\* the sum of line 325 has consumed every future, so that success has its
\* final value
SumFinished == (mainPc = "collect" /\ idx > Len(futures)) \/ summary # <<>>

\* C14: run_backup submits one task per device of the inventory, in order;
\* never more than max_workers tasks run at once; the success count is
\* final, and the summary written, only once every task has finished.
C14_OneTaskEachBoundedBarrier ==
    /\ Len(futures) <= Len(inventory)
    /\ (mainPc # "submit" => Len(futures) = Len(inventory))
    /\ Cardinality(Running) <= max_workers
    /\ (SumFinished => (AllFinished /\ Len(futures) = Len(inventory)))
    /\ (summary # <<>> => summary[2] = Len(inventory))

\* all the workers of the pool are busy and a task waits in the queue
C14_Witness ==
    /\ Cardinality(Running) = max_workers
    /\ Pending # {}
    /\ Len(futures) = Len(inventory)

\* --------------------------------------------------------------------------
\* Further properties of one device task (checked under SpecDev)
\* --------------------------------------------------------------------------
\* how often the text w has been sent on the session
TimesSent(w) == Cardinality({k \in 1..Len(sent) : sent[k] = w})

\* the text shows the username prompt and, after it, the password prompt
PromptsInOrder(t) ==
    \E i \in 1..Len(t) : \E j \in (i + Len(user_prompt))..Len(t) :
        OccursAt(t, user_prompt, i) /\ OccursAt(t, password_prompt, j)

\* C15 (as claimed): in the cisco_wlc login the username is sent once and
\* only after "User:" was received, the password once, after the username
\* and only after "Password:" was received, and whenever the device shows
\* the two prompts in this order the login completes, however the text is
\* split into chunks: once all of it has been received the task is no
\* longer waiting for a prompt.
C15_LoginCompletes ==
    device.platform = "cisco_wlc" =>
        /\ TimesSent(username \o NL) <= 1
        /\ TimesSent(password \o NL) <= 1
        /\ (TimesSent(username \o NL) = 1 =>
                (sent[1] = username \o NL /\ Contains(Received, user_prompt)))
        /\ (TimesSent(password \o NL) = 1 =>
                (sent[2] = password \o NL /\ PromptsInOrder(Received)))
        /\ (pc \in {"wlc_user", "wlc_pass"} => TimesSent(password \o NL) = 0)
        /\ ((PromptsInOrder(stream) /\ CaptureComplete)
                => pc \notin {"wlc_user", "wlc_pass"})

\* C16 (as claimed): in the read loops of cisco_wlc and h3c / h3c_core,
\* when what the loop has received ends with the completion pattern, with
\* no pagination trigger in it, the loop completes however the text was
\* split into chunks: once all of the text has been received the loop is no
\* longer reading; and a completed loop returns all the chunks it received,
\* in order.
C16_ReadLoopsComplete ==
    /\ (pc = "h3c_read" /\ CaptureComplete) => ~H3cPromptAtEnd(output)
    /\ (pc = "wlc_read" /\ CaptureComplete /\ ~Contains(output, more_flag))
            => ~IsSuffixOf(end_flag, output)
    /\ (device.platform \in {"h3c", "h3c_core", "cisco_wlc"} /\ capture.ok)
            => (capture.text = output /\ IsSuffixOf(output, Received))

\* a sent text that is a command: neither a login response nor a
\* continuation keystroke
IsCommandText(w) == w \notin ({username \o NL, password \o NL} \cup ContinuationKeys)

\* a sent text without its final newline
Chomp(w) == IF Len(w) > 0 /\ w[Len(w)] = "\n" THEN SubSeq(w, 1, Len(w) - 1) ELSE w

\* the commands get_backup sent on the session, in order
CommandsSent ==
    LET cs == SelectSeq(sent, IsCommandText)
    IN  [k \in 1..Len(cs) |-> Chomp(cs[k])]

\* C17 (as claimed): on every SSH platform the commands handed to the
\* sanitizer through save_config are exactly the commands get_backup sent on
\* the session, and the sanitizer runs exactly once per capture handed to
\* save_config.
C17_SanitizerGetsSentCommands ==
    device.platform # "fortinet" =>
        /\ nClean = (IF env.fs # "none" THEN 1 ELSE 0)
        /\ (nClean = 1 =>
                CommandList(backup_commands[device.platform]) = CommandsSent)

\* C18: in the cisco_wlc read loop a keystroke is sent exactly for a
\* received chunk that contains the pagination trigger: the read of such a
\* chunk ends with the continuation keystrokes sent, before any further
\* read, and neither the read of a chunk without the trigger nor a poll
\* that finds no data sends anything.
C18_KeysOnlyOnTrigger ==
    [][ pc = "wlc_read" =>
          IF chan # <<>> /\ chan' # chan /\ Len(chan') < Len(chan)
          THEN LET d == Recv(chan, RecvShell)
               IN  /\ data' = d
                   /\ Contains(d, more_flag) =>
                         /\ Len(sent') > Len(sent)
                         /\ SubSeq(sent', 1, Len(sent)) = sent
                         /\ \A k \in (Len(sent) + 1)..Len(sent') :
                                sent'[k] \in ContinuationKeys
                   /\ ~Contains(d, more_flag) => sent' = sent
          ELSE sent' = sent ]_vars

\* the loop has answered a chunk holding the trigger and has since read a
\* chunk without it, sending nothing more
C18_Witness ==
    /\ pc = "wlc_read"
    /\ TimesSent(<<" ">>) = 1
    /\ data # <<>>
    /\ ~Contains(data, more_flag)
    /\ Contains(output, more_flag)

C20_SuccessIffFileWritten ==
    /\ (ret = "True" => (pc = "done" /\ file.written))
    /\ (ret = "False" => ~file.written)
    /\ (file.written => ret = "True")

====
